---------------------------- MODULE Spec2Model ----------------------------
(***************************************************************************)
(* A model of mc_schem's Litematica codec (src/src/schem/litematica.rs):   *)
(* the packed array MultiBitSet, block_required_bits, and the save / load  *)
(* pair to_nbt_litematica / from_litematica.                               *)
(*                                                                         *)
(* A u64 is modelled by the set of the positions of its 1 bits (bit 0 is   *)
(* the least significant), so that shifts, masks and xor are computed on   *)
(* all 64 bits without leaving TLC's integer range.                        *)
(***************************************************************************)
EXTENDS Integers, Sequences, FiniteSets, TLC

VARIABLES
    mbs,            \* the MultiBitSet under test: [arr, length, element_bits]
    written,        \* per element: the value last stored by a successful set
    last,           \* the last call made on mbs and what it returned
    resets,         \* the number of reset calls made on mbs
    palette_size,   \* argument of block_required_bits
    bits,           \* what block_required_bits returned for it
    schematic,      \* the Schematic that is saved
    big_endian,     \* whether the host is big-endian
    saved,          \* how to_nbt_litematica ended, and its option
    tree,           \* the NBT tree handed to from_litematica
    crafted,        \* what was changed in the tree after the save
    loaded          \* how from_litematica ended, and its option

mbs_vars == <<mbs, written, last, resets>>
bits_vars == <<palette_size, bits>>
codec_vars == <<schematic, big_endian, saved, tree, crafted, loaded>>
vars == <<mbs, written, last, resets, palette_size, bits, schematic, big_endian, saved, tree, crafted,
          loaded>>

-----------------------------------------------------------------------------
(* Bounds of the model.                                                    *)

MaxLen == 3
MaxDataLen == 2
MaxResets == 2
MaxReuseLen == 2
MaxFillLen == 13
MaxPaletteSize == 130
MaxRegions == 2
MaxSameName == 3

(* The largest grid of the sample regions has 12 cells of 2 bits.          *)
MaxCells == 12
MaxIndex == 3

(* Coordinates given to a block entity of a file: -1 up to one past the    *)
(* largest extent of the sample regions.  Files of at most MaxCraftRegions *)
(* regions are given an extra block entity, entity or faulty tag.          *)
MaxCoord == 4
MaxCraftRegions == 1

(* Element widths exercised by arbitrary calls: 1 and 64 are the extremes, *)
(* 33 makes element 1 straddle two words. Filling exercises more: 5 is the *)
(* width of the documented scenario, 24, 33 and 63 make elements 2, 1 and  *)
(* 1 straddle two words.                                                   *)
Widths == {1, 33, 64}
FillWidths == {1, 5, 24, 33, 63, 64}

-----------------------------------------------------------------------------
(* let val = ...; body: a value computed once and used under a name.       *)
With(val, body(_)) == body(val)

-----------------------------------------------------------------------------
(* u64 arithmetic on bit sets.                                             *)

WordBits == 64
Bit == 0 .. (WordBits - 1)

Shl(x, s) == {b + s : b \in x} \cap Bit
Shr(x, s) == {b - s : b \in {c \in x : c >= s}}
BitAnd(x, y) == x \cap y
BitOr(x, y) == x \cup y
BitXor(x, y) == (x \ y) \cup (y \ x)
BitNot(x) == Bit \ x

(* x - 1, wrapping.                                                        *)
Dec(x) ==
    IF x = {} THEN Bit
    ELSE LET m == CHOOSE b \in x : \A c \in x : b <= c
         IN  (x \ {m}) \cup (0 .. (m - 1))

(* x > y as unsigned integers.                                             *)
Gt(x, y) == \E k \in x \ y : \A j \in (k + 1) .. (WordBits - 1) : (j \in x) <=> (j \in y)

-----------------------------------------------------------------------------
(* MultiBitSet.                                                            *)

new == [arr |-> <<>>, length |-> 0, element_bits |-> 1]

ceil_up_to(a, b) ==
    IF (a % b) = 0 THEN a ELSE ((a \div b) + 1) * b

total_bits(s) == s.length * s.element_bits

(* Wrong variant of required_u64_num: the word count rounded down.         *)
required_u64_num_rounded_down(s) == total_bits(s) \div 64

required_u64_num(s) ==
    LET tb == total_bits(s)
    IN  IF tb % 64 = 0 THEN tb \div 64 ELSE tb \div 64 + 1

(* Vec::resize(n, 0): kept words keep their value, new words are 0.        *)
resize(arr, n) == [k \in 1 .. n |-> IF k <= Len(arr) THEN arr[k] ELSE {}]

reset_panics(element_bits) == ~ (element_bits > 0) \/ ~ (element_bits <= 64)

reset(s, element_bits, len) ==
    LET t == [s EXCEPT !.length = len, !.element_bits = element_bits]
    IN  [t EXCEPT !.arr = resize(s.arr, required_u64_num(t))]

from_data_vec(data, length, ele_bits) ==
    IF ele_bits <= 0 \/ ele_bits > 64 THEN [some |-> FALSE, s |-> new]
    ELSE IF (length * ele_bits) > (Len(data) * 64) THEN [some |-> FALSE, s |-> new]
    ELSE [some |-> TRUE, s |-> [arr |-> data, length |-> length, element_bits |-> ele_bits]]

global_bit_index_to_u64_index(gbit_index) == gbit_index \div 64
global_bit_index_to_local_bit_index(gbit_index) == gbit_index % 64

mask_by_bits(b) ==
    IF b <= 63 THEN Dec(Shl({0}, b)) ELSE Bit

mask_on_top_by_bits(b) ==
    LET shift_bits == 64 - b
    IN  Shl(mask_by_bits(b), shift_bits)

basic_mask(s) == mask_by_bits(s.element_bits)

element_max_value(s) == basic_mask(s)

logic_bit_index_to_global_bit_index(logic_bit_index) ==
    IF logic_bit_index >= 0 THEN logic_bit_index
    ELSE LET addon == ceil_up_to(-logic_bit_index, 64) * 2
         IN  logic_bit_index + addon

first_global_bit_index_of(s, ele_index) ==
    logic_bit_index_to_global_bit_index(63 - ((ele_index + 1) * s.element_bits - 1))

last_global_bit_index_of(s, ele_index) ==
    logic_bit_index_to_global_bit_index(63 - (ele_index * s.element_bits))

is_element_on_single_block(s, ele_index) ==
    ~ (first_global_bit_index_of(s, ele_index) > last_global_bit_index_of(s, ele_index))

(* Wrong variant of shifts_of: the last local bit index used as the shift.  *)
shifts_of_unflipped(llbi) == llbi

(* let shifts = 63 - (llbi as isize)                                       *)
shifts_of(llbi) == 63 - llbi

(* The values the two branches of get and set compute before touching arr. *)
Place(s, ele_index) ==
    With(first_global_bit_index_of(s, ele_index), LAMBDA fgbi :
    With(last_global_bit_index_of(s, ele_index), LAMBDA lgbi :
        LET u64idx_f == global_bit_index_to_u64_index(fgbi)
            u64idx_l == global_bit_index_to_u64_index(lgbi)
        IN  [single |-> is_element_on_single_block(s, ele_index),
             u64idx_f |-> u64idx_f,
             u64idx_l |-> u64idx_l,
             shifts |-> shifts_of(global_bit_index_to_local_bit_index(lgbi)),
             l_part_bits |-> lgbi - u64idx_l * 64 + 1,
             f_part_bits |-> ((u64idx_f + 1) * 64) - fgbi]))

(* The assertions of the body of get and set, and the bounds checks of the *)
(* indexing of arr: TRUE when one of them fails (the call panics).         *)
BodyPanics(s, ele_index) ==
    With(Place(s, ele_index), LAMBDA p :
        IF p.single
        THEN \/ p.u64idx_f # p.u64idx_l
             \/ ~ (p.shifts >= 0)
             \/ ~ (p.shifts + s.element_bits <= 64)
             \/ ~ (p.u64idx_f < Len(s.arr))
        ELSE \/ p.u64idx_f # p.u64idx_l + 1
             \/ ~ (p.l_part_bits > 0)
             \/ ~ (p.f_part_bits > 0)
             \/ p.l_part_bits + p.f_part_bits # s.element_bits
             \/ ~ (p.u64idx_f < Len(s.arr)))

NoValue == [panic |-> TRUE, val |-> {}]

get(s, ele_index) ==
    IF ~ (ele_index < s.length) THEN NoValue
    ELSE IF BodyPanics(s, ele_index) THEN NoValue
    ELSE With(Place(s, ele_index), LAMBDA p :
             IF p.single
             THEN LET mask == Shl(basic_mask(s), p.shifts)
                  IN  [panic |-> FALSE,
                       val |-> Shr(BitAnd(s.arr[p.u64idx_f + 1], mask), p.shifts)]
             ELSE LET l_mask == mask_on_top_by_bits(p.l_part_bits)
                      f_mask == mask_by_bits(p.f_part_bits)
                      l_part == Shr(BitAnd(s.arr[p.u64idx_l + 1], l_mask), 64 - p.l_part_bits)
                      f_part == Shl(BitAnd(s.arr[p.u64idx_f + 1], f_mask), p.l_part_bits)
                  IN  [panic |-> FALSE, val |-> BitOr(l_part, f_part)])

(* Wrong variant of set_rejects: the index is not checked.                 *)
set_rejects_value_only(s, ele_index, value) == Gt(value, element_max_value(s))

(* The two early returns of set.                                           *)
set_rejects(s, ele_index, value) ==
    \/ Gt(value, element_max_value(s))
    \/ ele_index >= s.length

(* Wrong variants of erase: nothing is cleared; the whole word is cleared. *)
erase_nothing(word, mask) == word
erase_word(word, mask) == {}

(* word &= !mask                                                           *)
erase(word, mask) == BitAnd(word, BitNot(mask))

(* set returns Result<(), ()> and mutates self: [ok, panic, s].            *)
set(s, ele_index, value0) ==
    IF set_rejects(s, ele_index, value0) THEN [ok |-> FALSE, panic |-> FALSE, s |-> s]
    ELSE IF BodyPanics(s, ele_index) THEN [ok |-> FALSE, panic |-> TRUE, s |-> s]
    ELSE With(Place(s, ele_index), LAMBDA p :
             LET value == BitAnd(value0, basic_mask(s))
             IN  IF p.single
                 THEN LET mask == Shl(basic_mask(s), p.shifts)
                          erased == erase(s.arr[p.u64idx_f + 1], mask)
                      IN  [ok |-> TRUE, panic |-> FALSE,
                           s |-> [s EXCEPT !.arr[p.u64idx_f + 1] =
                                               BitXor(erased, Shl(value, p.shifts))]]
                 ELSE LET l_mask == mask_on_top_by_bits(p.l_part_bits)
                          f_mask == mask_by_bits(p.f_part_bits)
                          f_erased == erase(s.arr[p.u64idx_f + 1], f_mask)
                          l_erased == erase(s.arr[p.u64idx_l + 1], l_mask)
                          f_write_mask == Shr(value, p.l_part_bits)
                          l_write_mask == Shl(value, 64 - p.l_part_bits)
                      IN  [ok |-> TRUE, panic |-> FALSE,
                           s |-> [s EXCEPT
                                    !.arr[p.u64idx_f + 1] = BitXor(f_erased, f_write_mask),
                                    !.arr[p.u64idx_l + 1] = BitXor(l_erased, l_write_mask)]])

-----------------------------------------------------------------------------
(* Conversions between small integers and u64 (u16 as u64, u64 as u16).    *)

IndexBits == 16

ToU64(n) == {b \in 0 .. (IndexBits - 1) : (n \div (2 ^ b)) % 2 = 1}

RECURSIVE SumBits(_)
SumBits(x) ==
    IF x = {} THEN 0
    ELSE LET b == CHOOSE c \in x : TRUE IN (2 ^ b) + SumBits(x \ {b})

(* as u16: the low 16 bits.                                                *)
AsU16(x) == SumBits(x \cap (0 .. (IndexBits - 1)))

-----------------------------------------------------------------------------
(* block_required_bits.                                                    *)

RECURSIVE required_bits_loop(_, _)
required_bits_loop(b, size) ==
    IF (2 ^ b) < size THEN required_bits_loop(b + 1, size) ELSE b

max(a, b) == IF a >= b THEN a ELSE b

block_required_bits(size) == required_bits_loop(0, max(size, 1))

-----------------------------------------------------------------------------
(* NBT values (fastnbt::Value): a tag name and a payload.  A Double holds  *)
(* its value in halves (3 is 1.5); a LongArray holds i64 bit patterns.     *)

ValueInt(n) == [tag |-> "Int", v |-> n]
ValueLong(n) == [tag |-> "Long", v |-> n]
ValueString(str) == [tag |-> "String", v |-> str]
ValueDouble(h) == [tag |-> "Double", v |-> h]
ValueList(seq) == [tag |-> "List", v |-> seq]
ValueCompound(map) == [tag |-> "Compound", v |-> map]
ValueLongArray(seq) == [tag |-> "LongArray", v |-> seq]

id_of_nbt_tag(tag) ==
    CASE tag = "Byte" -> 1 [] tag = "Short" -> 2 [] tag = "Int" -> 3
      [] tag = "Long" -> 4 [] tag = "Float" -> 5 [] tag = "Double" -> 6
      [] tag = "ByteArray" -> 7 [] tag = "String" -> 8 [] tag = "List" -> 9
      [] tag = "Compound" -> 10 [] tag = "IntArray" -> 11 [] tag = "LongArray" -> 12

EmptyMap == <<>>

(* HashMap::insert: the new value replaces an old one under the same key.  *)
insert(map, key, val) == (key :> val) @@ map

(* The bytes of a word in the opposite order.                              *)
swap_bytes(x) == {8 * (7 - (b \div 8)) + (b % 8) : b \in x}

(* i64::from_le_bytes(u.to_ne_bytes()) and u64::from_ne_bytes(i.to_le_bytes()): *)
(* the same bits on a little-endian host, the bytes reversed on a          *)
(* big-endian one.                                                         *)
i64_from_le_bytes_of_ne(u, host_be) == IF host_be THEN swap_bytes(u) ELSE u
u64_from_ne_bytes_of_le(i, host_be) == IF host_be THEN swap_bytes(i) ELSE i

-----------------------------------------------------------------------------
(* Regions and schematics.                                                 *)

Air == "minecraft:air"
Blocks == <<Air, "minecraft:stone", "minecraft:dirt", "minecraft:glass">>

volume(shape) == shape[1] * shape[2] * shape[3]

Cells(shape) ==
    {<<x, y, z>> : x \in 0 .. (shape[1] - 1), y \in 0 .. (shape[2] - 1),
                   z \in 0 .. (shape[3] - 1)}

(* Region::new() followed by reshape(shape): a zeroed grid, and nothing in *)
(* the palette, the entities and the block entities (parse_region pushes   *)
(* the blocks of the file onto the palette of a new region and decodes the *)
(* grid with the length it then has).                                      *)
NewRegion(shape) ==
    [name |-> "", offset |-> <<0, 0, 0>>, shape |-> shape,
     palette |-> <<>>, array |-> [c \in Cells(shape) |-> 0],
     entities |-> <<>>, block_entities |-> EmptyMap]

(* Entity::new() and BlockEntity::new().                                   *)
NewEntity == [tags |-> EmptyMap, position |-> <<0, 0, 0>>, block_pos |-> <<0, 0, 0>>]
NewBlockEntity == [tags |-> EmptyMap]

(* for y in 0..shape[1] { for z in 0..shape[2] { for x in 0..shape[0] {    *)
(* the cells in the order the loops visit them.                            *)
XRow(y, z, sx) == [i \in 1 .. sx |-> <<i - 1, y, z>>]

RECURSIVE ZRows(_, _, _, _)
ZRows(y, z, sz, sx) ==
    IF z >= sz THEN <<>> ELSE XRow(y, z, sx) \o ZRows(y, z + 1, sz, sx)

RECURSIVE YPlanes(_, _)
YPlanes(y, shape) ==
    IF y >= shape[2] THEN <<>>
    ELSE ZRows(y, 0, shape[3], shape[1]) \o YPlanes(y + 1, shape)

(* Wrong variant of yzx_order: for x { for z { for y.                      *)
RECURSIVE XZYFrom(_, _)
XZYFrom(x, shape) ==
    IF x >= shape[1] THEN <<>>
    ELSE LET col(z) == [i \in 1 .. shape[2] |-> <<x, i - 1, z>>]
             RECURSIVE zs(_)
             zs(z) == IF z >= shape[3] THEN <<>> ELSE col(z) \o zs(z + 1)
         IN  zs(0) \o XZYFrom(x + 1, shape)
xzy_order(shape) == XZYFrom(0, shape)

yzx_order(shape) == YPlanes(0, shape)

-----------------------------------------------------------------------------
(* Save: region_to_nbt_litematica and Schematic::to_nbt_litematica.        *)

size_to_compound(size) == [x |-> ValueInt(size[1]), y |-> ValueInt(size[2]), z |-> ValueInt(size[3])]

size_to_list(size) == <<ValueDouble(size[1]), ValueDouble(size[2]), ValueDouble(size[3])>>

(* Block::to_nbt.                                                          *)
block_to_nbt(blk) == [Name |-> ValueString(blk)]

(* The set loop over the cells: [panic, s].                                *)
RECURSIVE fill_block_states(_, _, _, _)
fill_block_states(s, order, idx, array) ==
    IF idx >= Len(order) THEN [panic |-> FALSE, s |-> s]
    ELSE With(set(s, idx, ToU64(array[order[idx + 1]])), LAMBDA res :
             IF ~ res.ok THEN [panic |-> TRUE, s |-> s]
             ELSE fill_block_states(res.s, order, idx + 1, array))

(* te_order: the order in which the HashMap block_entities is iterated.    *)
region_to_nbt_litematica(region, te_order, host_be) ==
    LET element_bits == block_required_bits(Len(region.palette))
    IN  IF reset_panics(element_bits) THEN [kind |-> "Panic"]
        ELSE With(fill_block_states(reset(new, element_bits, volume(region.shape)),
                                    yzx_order(region.shape), 0, region.array),
             LAMBDA filled :
                 IF filled.panic THEN [kind |-> "Panic"]
                 ELSE [kind |-> "Ok",
                       nbt |->
                         [Size |-> ValueCompound(size_to_compound(region.shape)),
                          Position |-> ValueCompound(size_to_compound(region.offset)),
                          BlockStatePalette |->
                              ValueList([k \in 1 .. Len(region.palette) |->
                                       ValueCompound(block_to_nbt(region.palette[k]))]),
                          Entities |->
                              ValueList([k \in 1 .. Len(region.entities) |->
                                       ValueCompound(insert(region.entities[k].tags, "Pos",
                                           ValueList(size_to_list(region.entities[k].position))))]),
                          BlockStates |->
                              ValueLongArray([k \in 1 .. Len(filled.s.arr) |->
                                            i64_from_le_bytes_of_ne(filled.s.arr[k], host_be)]),
                          TileEntities |->
                              ValueList([k \in 1 .. Len(te_order) |->
                                       ValueCompound(insert(insert(insert(
                                           region.block_entities[te_order[k]].tags,
                                           "x", ValueInt(te_order[k][1])),
                                           "y", ValueInt(te_order[k][2])),
                                           "z", ValueInt(te_order[k][3])))]),
                          PendingFluidTicks |-> ValueList(<<>>),
                          PendingBlockTicks |-> ValueList(<<>>)]])

(* The loop of find_non_duplicate_name never changes idx: it returns       *)
(* "<old>(1)" when that key is free and never returns otherwise.           *)
find_non_duplicate_name(saved_regions, old_name) ==
    LET idx == 1
        cur_name == old_name \o "(" \o ToString(idx) \o ")"
    IN  IF cur_name \in DOMAIN saved_regions
        THEN [hangs |-> TRUE, name |-> cur_name]
        ELSE [hangs |-> FALSE, name |-> cur_name]

(* The loop over self.regions: [kind, regions].                            *)
RECURSIVE save_regions(_, _, _, _, _, _)
save_regions(regs, k, regions, rename, te_orders, host_be) ==
    IF k > Len(regs) THEN [kind |-> "Ok", regions |-> regions]
    ELSE With(region_to_nbt_litematica(regs[k], te_orders[k], host_be), LAMBDA r :
             LET reg == regs[k]
             IN  IF r.kind = "Panic" THEN [kind |-> "Panic"]
                 ELSE IF reg.name \in DOMAIN regions
                 THEN IF rename
                      THEN LET f == find_non_duplicate_name(regions, reg.name)
                           IN  IF f.hangs THEN [kind |-> "Hang"]
                               ELSE save_regions(regs, k + 1,
                                        insert(regions, f.name, ValueCompound(r.nbt)),
                                        rename, te_orders, host_be)
                      ELSE [kind |-> "Err",
                            err |-> [type |-> "DuplicatedRegionName", name |-> reg.name]]
                 ELSE save_regions(regs, k + 1,
                          insert(regions, reg.name, ValueCompound(r.nbt)),
                          rename, te_orders, host_be))

(* LitematicaMetaData::new().                                              *)
NewLitematicaMetaData ==
    [data_version |-> 0, version |-> 0, sub_version |-> [some |-> FALSE, v |-> 0],
     time_created |-> 0, time_modified |-> 0, author |-> "", name |-> "",
     description |-> ""]

metadata_litematica(schem) ==
    LET md == IF schem.raw_metadata.some THEN schem.raw_metadata.v
              ELSE NewLitematicaMetaData
    IN  [md EXCEPT !.data_version = schem.metadata.mc_data_version,
                   !.author = schem.metadata.author,
                   !.name = schem.metadata.name,
                   !.description = schem.metadata.description]

(* Schematic::volume(), total_blocks(false) and shape().                   *)
RECURSIVE sum_volume(_)
sum_volume(regs) ==
    IF regs = <<>> THEN 0 ELSE volume(Head(regs).shape) + sum_volume(Tail(regs))

schem_volume(schem) == sum_volume(schem.regions)

region_total_blocks(r) ==
    Cardinality({c \in Cells(r.shape) : r.palette[r.array[c] + 1] # Air})

RECURSIVE sum_total_blocks(_)
sum_total_blocks(regs) ==
    IF regs = <<>> THEN 0 ELSE region_total_blocks(Head(regs)) + sum_total_blocks(Tail(regs))

schem_total_blocks(schem) == sum_total_blocks(schem.regions)

schem_shape(schem) ==
    LET n == Len(schem.regions)
        hi(d) == CHOOSE m \in {schem.regions[k].offset[d] + schem.regions[k].shape[d] : k \in 1 .. n} :
                     \A k \in 1 .. n : schem.regions[k].offset[d] + schem.regions[k].shape[d] <= m
        lo(d) == CHOOSE m \in {schem.regions[k].offset[d] : k \in 1 .. n} :
                     \A k \in 1 .. n : m <= schem.regions[k].offset[d]
    IN  IF n = 0 THEN <<0, 0, 0>> ELSE <<hi(1) - lo(1), hi(2) - lo(2), hi(3) - lo(3)>>

to_nbt_litematica(schem, rename, te_orders, host_be) ==
    With(save_regions(schem.regions, 1, EmptyMap, rename, te_orders, host_be), LAMBDA r :
    LET md == metadata_litematica(schem)
        md_nbt == [Name |-> ValueString(md.name),
                   Author |-> ValueString(md.author),
                   Description |-> ValueString(md.description),
                   TimeCreated |-> ValueLong(md.time_created),
                   TimeModified |-> ValueLong(md.time_modified),
                   TotalVolume |-> ValueInt(schem_volume(schem)),
                   TotalBlocks |-> ValueInt(schem_total_blocks(schem)),
                   RegionCount |-> ValueInt(Len(schem.regions)),
                   EnclosingSize |-> ValueCompound(size_to_compound(schem_shape(schem)))]
        top == [Regions |-> ValueCompound(r.regions),
                MinecraftDataVersion |-> ValueInt(md.data_version),
                Version |-> ValueInt(md.version),
                Metadata |-> ValueCompound(md_nbt)]
    IN  IF r.kind # "Ok" THEN r
        ELSE [kind |-> "Ok",
              nbt |-> IF md.sub_version.some
                      THEN insert(top, "SubVersion", ValueInt(md.sub_version.v))
                      ELSE top])

-----------------------------------------------------------------------------
(* Load: Schematic::from_litematica and the parsers it calls.  A parser    *)
(* returns [kind |-> "Ok", val], [kind |-> "Err", err] or [kind |->        *)
(* "Panic"] (a failed assertion).                                          *)

NoError == [type |-> "None"]

TagMissing(tag_path) == [type |-> "TagMissing", tag_path |-> tag_path]

TagTypeMismatch(tag_path, expected, found) ==
    [type |-> "TagTypeMismatch", tag_path |-> tag_path,
     expected_type |-> id_of_nbt_tag(expected), found_type |-> id_of_nbt_tag(found)]

InvalidValue(tag_path, error) ==
    [type |-> "InvalidValue", tag_path |-> tag_path, error |-> error]

Ok(val) == [kind |-> "Ok", val |-> val]
Err(err) == [kind |-> "Err", err |-> err]
Panic == [kind |-> "Panic"]

(* unwrap_tag!: the error it returns with, or NoError.                     *)
unwrap_tag(value, expected, tag_path) ==
    IF value.tag = expected THEN NoError
    ELSE TagTypeMismatch(tag_path, expected, value.tag)

(* unwrap_opt_tag!(map.get(key), ...): the error it returns with, or       *)
(* NoError.                                                                *)
unwrap_opt_tag(map, key, expected, tag_path) ==
    IF key \in DOMAIN map THEN unwrap_tag(map[key], expected, tag_path)
    ELSE TagMissing(tag_path)

(* The first error of a sequence of checks made in that order.             *)
RECURSIVE first_error(_)
first_error(errs) ==
    IF errs = <<>> THEN NoError
    ELSE IF Head(errs).type # "None" THEN Head(errs)
    ELSE first_error(Tail(errs))

(* map[key] as a compound's members when it is one, else no members.       *)
members(map, key) ==
    IF key \in DOMAIN map /\ map[key].tag = "Compound" THEN map[key].v ELSE EmptyMap

XYZ == <<"x", "y", "z">>

RECURSIVE parse_size_from(_, _, _, _, _)
parse_size_from(nbt, tag_path, allow_negative, k, result) ==
    IF k > 3 THEN Ok(result)
    ELSE LET key == XYZ[k]
             cur_tag_path == tag_path \o "/" \o key
             e == unwrap_opt_tag(nbt, key, "Int", cur_tag_path)
         IN  IF e.type # "None" THEN Err(e)
             ELSE IF (~ allow_negative) /\ (nbt[key].v < 0)
             THEN Err(InvalidValue(cur_tag_path,
                      "Expected non-negative value, but found " \o ToString(nbt[key].v)))
             ELSE parse_size_from(nbt, tag_path, allow_negative, k + 1,
                                  Append(result, nbt[key].v))

parse_size_compound(nbt, tag_path, allow_negative) ==
    parse_size_from(nbt, tag_path, allow_negative, 1, <<>>)

parse_metadata(root) ==
    LET md == members(root, "Metadata")
        enclosing_size == members(md, "EnclosingSize")
        size_res == parse_size_compound(enclosing_size, "/Metadata/EnclosingSize", FALSE)
        e == first_error(<<
            unwrap_opt_tag(root, "MinecraftDataVersion", "Int", "/MinecraftDataVersion"),
            unwrap_opt_tag(root, "Version", "Int", "/Version"),
            unwrap_opt_tag(root, "Metadata", "Compound", "/Metadata"),
            unwrap_opt_tag(md, "TimeCreated", "Long", "/Metadata/TimeCreated"),
            unwrap_opt_tag(md, "TimeModified", "Long", "/Metadata/TimeModified"),
            unwrap_opt_tag(md, "EnclosingSize", "Compound", "/Metadata/EnclosingSize"),
            IF Cardinality(DOMAIN enclosing_size) # 3
            THEN InvalidValue("/Metadata/EnclosingSize",
                     "Expected a compound containing 3 elements, but found "
                         \o ToString(Cardinality(DOMAIN enclosing_size)))
            ELSE NoError,
            IF size_res.kind = "Err" THEN size_res.err ELSE NoError,
            unwrap_opt_tag(md, "Description", "String", "/Metadata/Description"),
            unwrap_opt_tag(md, "Author", "String", "/Metadata/Author"),
            unwrap_opt_tag(md, "Name", "String", "/Metadata/Name"),
            IF "SubVersion" \in DOMAIN root
            THEN unwrap_tag(root["SubVersion"], "Int", "/SubVersion")
            ELSE NoError>>)
    IN  IF e.type # "None" THEN Err(e)
        ELSE Ok([data_version |-> root["MinecraftDataVersion"].v,
                 version |-> root["Version"].v,
                 sub_version |-> IF "SubVersion" \in DOMAIN root
                                 THEN [some |-> TRUE, v |-> root["SubVersion"].v]
                                 ELSE [some |-> FALSE, v |-> 0],
                 time_created |-> md["TimeCreated"].v,
                 time_modified |-> md["TimeModified"].v,
                 author |-> md["Author"].v,
                 name |-> md["Name"].v,
                 description |-> md["Description"].v])

(* MetaDataIR::from_litematica.                                            *)
metadata_ir_from_litematica(src) ==
    [mc_data_version |-> src.data_version,
     time_created |-> src.time_created,
     time_modified |-> src.time_modified,
     author |-> src.author,
     name |-> src.name,
     description |-> src.description]

(* vanilla_structure::parse_block: the block named by the compound.        *)
parse_block(blk_nbt, tag_path) ==
    LET e == unwrap_opt_tag(blk_nbt, "Name", "String", tag_path \o "/Name")
    IN  IF e.type # "None" THEN Err(e) ELSE Ok(blk_nbt["Name"].v)

RECURSIVE parse_palette(_, _, _, _)
parse_palette(palette, tag_path, idx, result) ==
    IF idx >= Len(palette) THEN Ok(result)
    ELSE LET cur_tag_path == tag_path \o "/BlockStatePalette[" \o ToString(idx) \o "]"
             e == unwrap_tag(palette[idx + 1], "Compound", cur_tag_path)
         IN  IF e.type # "None" THEN Err(e)
             ELSE With(parse_block(palette[idx + 1].v, cur_tag_path), LAMBDA block :
                      IF block.kind # "Ok" THEN block
                      ELSE parse_palette(palette, tag_path, idx + 1,
                                         Append(result, block.val)))

(* Wrong variant of Ge: an index equal to the palette length passes.       *)
Ge_or_equal_passes(x, y) == Gt(x, y)

(* x >= y as unsigned integers.                                            *)
Ge(x, y) == ~ Gt(y, x)

(* as i32, for the values below 2^31 that a palette index can take.        *)
AsI32(x) == SumBits(x \cap (0 .. 30))

(* The get loop over the cells: the grid, or the first index out of range. *)
RECURSIVE decode_block_states(_, _, _, _, _, _)
decode_block_states(s, order, idx, palette_len, tag_path, array) ==
    IF idx >= Len(order) THEN Ok(array)
    ELSE With(get(s, idx), LAMBDA blk_id :
             IF blk_id.panic THEN Panic
             ELSE IF Ge(blk_id.val, ToU64(palette_len))
             THEN Err([type |-> "BlockIndexOutOfRange",
                       tag_path |-> tag_path \o "/BlockStates",
                       index |-> AsI32(blk_id.val),
                       range |-> <<0, palette_len>>])
             ELSE decode_block_states(s, order, idx + 1, palette_len, tag_path,
                      [array EXCEPT ![order[idx + 1]] = AsU16(blk_id.val)]))

(* f64 as i32 of a value held in halves: the fraction is dropped.          *)
double_as_i32(h) == IF h >= 0 THEN h \div 2 ELSE - ((- h) \div 2)

parse_entity(nbt, tag_path) ==
    LET tag_pos_path == tag_path \o "/Pos"
        e == unwrap_opt_tag(nbt, "Pos", "List", tag_pos_path)
        pos == nbt["Pos"].v
        cur_tag_path(dim) == tag_path \o "/Pos[" \o ToString(dim) \o "]"
        e_dim == first_error([k \in 1 .. 3 |-> unwrap_tag(pos[k], "Double", cur_tag_path(k - 1))])
    IN  IF e.type # "None" THEN Err(e)
        ELSE IF Len(pos) # 3
        THEN Err(InvalidValue(tag_pos_path,
                 "Pos filed for an entity should contain 3 doubles, but found "
                     \o ToString(Len(pos))))
        ELSE IF e_dim.type # "None" THEN Err(e_dim)
        ELSE Ok([tags |-> nbt,
                 position |-> [k \in 1 .. 3 |-> pos[k].v],
                 block_pos |-> [k \in 1 .. 3 |-> double_as_i32(pos[k].v)]])

RECURSIVE parse_entities(_, _, _, _)
parse_entities(entities_list, list_tag_path, idx, result) ==
    IF idx >= Len(entities_list) THEN Ok(result)
    ELSE LET cur_tag_path == list_tag_path \o "/[" \o ToString(idx) \o "]"
             e == unwrap_tag(entities_list[idx + 1], "Compound", cur_tag_path)
         IN  IF e.type # "None" THEN Err(e)
             ELSE With(parse_entity(entities_list[idx + 1].v, cur_tag_path), LAMBDA parse_res :
                      IF parse_res.kind # "Ok" THEN parse_res
                      ELSE parse_entities(entities_list, list_tag_path, idx + 1,
                                          Append(result, parse_res.val)))

(* The first axis on which pos is out of range, or 0.                      *)
pos_out_of_range_dim(pos, region_size) ==
    IF \E d \in 1 .. 3 : pos[d] < 0 \/ pos[d] > region_size[d]
    THEN CHOOSE d \in 1 .. 3 :
             /\ pos[d] < 0 \/ pos[d] > region_size[d]
             /\ \A c \in 1 .. (d - 1) : ~ (pos[c] < 0 \/ pos[c] > region_size[c])
    ELSE 0

parse_tile_entity(nbt, tag_path, region_size) ==
    With(parse_size_compound(nbt, tag_path, FALSE), LAMBDA pos_res :
        LET pos == pos_res.val
            bad == pos_out_of_range_dim(pos, region_size)
        IN  IF pos_res.kind # "Ok" THEN pos_res
            ELSE IF bad # 0
            THEN Err([type |-> "BlockPosOutOfRange",
                      tag_path |-> tag_path \o "/" \o XYZ[bad],
                      pos |-> pos,
                      range |-> region_size])
            ELSE Ok([pos |-> pos,
                     te |-> [tags |-> [key \in (DOMAIN nbt) \ {"x", "y", "z"} |->
                                          nbt[key]]]]))

RECURSIVE parse_tile_entities(_, _, _, _, _)
parse_tile_entities(te_list, tag_path, region_size, idx, block_entities) ==
    IF idx >= Len(te_list) THEN Ok(block_entities)
    ELSE LET cur_tag_path == tag_path \o "/[" \o ToString(idx) \o "]"
             e == unwrap_tag(te_list[idx + 1], "Compound", cur_tag_path)
         IN  IF e.type # "None" THEN Err(e)
             ELSE With(parse_tile_entity(te_list[idx + 1].v, tag_path, region_size),
                  LAMBDA te_res :
                      IF te_res.kind # "Ok" THEN te_res
                      ELSE IF te_res.val.pos \in DOMAIN block_entities
                      THEN Err([type |-> "MultipleBlockEntityInOnePos",
                                pos |-> te_res.val.pos,
                                latter_tag_path |-> cur_tag_path])
                      ELSE parse_tile_entities(te_list, tag_path, region_size, idx + 1,
                               insert(block_entities, te_res.val.pos, te_res.val.te)))

parse_region(nbt, tag_path, host_be) ==
    LET pos_path == tag_path \o "/Position"
        e_pos == unwrap_opt_tag(nbt, "Position", "Compound", pos_path)
        e_pal == unwrap_opt_tag(nbt, "BlockStatePalette", "List",
                                tag_path \o "/BlockStatePalette")
        size_path == tag_path \o "/Size"
        e_size == unwrap_opt_tag(nbt, "Size", "Compound", size_path)
        e_arr == unwrap_opt_tag(nbt, "BlockStates", "LongArray", tag_path \o "/BlockStates")
        array_u8_be == [k \in 1 .. Len(nbt["BlockStates"].v) |->
                           u64_from_ne_bytes_of_le(nbt["BlockStates"].v[k], host_be)]
        ent_path == tag_path \o "/Entities"
        e_ent == unwrap_opt_tag(nbt, "Entities", "List", ent_path)
        e_te == unwrap_opt_tag(nbt, "TileEntities", "List", tag_path \o "/TileEntities")
    IN  (* parse position(offset) *)
        IF e_pos.type # "None" THEN Err(e_pos) ELSE
        With(parse_size_compound(nbt["Position"].v, pos_path, FALSE), LAMBDA pos_res :
        IF pos_res.kind # "Ok" THEN pos_res ELSE
        (* parse palette *)
        IF e_pal.type # "None" THEN Err(e_pal) ELSE
        With(parse_palette(nbt["BlockStatePalette"].v, tag_path, 0, <<>>), LAMBDA pal_res :
        IF pal_res.kind # "Ok" THEN pal_res ELSE
        (* parse size *)
        IF e_size.type # "None" THEN Err(e_size) ELSE
        With(parse_size_compound(nbt["Size"].v, size_path, FALSE), LAMBDA size_res :
        IF size_res.kind # "Ok" THEN size_res ELSE
        LET region_size == size_res.val
            total_blocks == region_size[1] * region_size[2] * region_size[3]
            palette_len == Len(pal_res.val)
        IN  (* parse 3d *)
        IF e_arr.type # "None" THEN Err(e_arr) ELSE
        With(from_data_vec(array_u8_be, total_blocks, block_required_bits(palette_len)),
             LAMBDA mbs_opt :
        IF ~ mbs_opt.some THEN Panic ELSE
        With(decode_block_states(mbs_opt.s, yzx_order(region_size), 0, palette_len,
                                 tag_path, NewRegion(region_size).array), LAMBDA arr_res :
        IF arr_res.kind # "Ok" THEN arr_res ELSE
        (* parse entities *)
        IF e_ent.type # "None" THEN Err(e_ent) ELSE
        With(parse_entities(nbt["Entities"].v, ent_path, 0, <<>>), LAMBDA ent_res :
        IF ent_res.kind # "Ok" THEN ent_res ELSE
        (* parse tile entities *)
        IF e_te.type # "None" THEN Err(e_te) ELSE
        With(parse_tile_entities(nbt["TileEntities"].v, tag_path, region_size, 0, EmptyMap),
             LAMBDA te_res :
        IF te_res.kind # "Ok" THEN te_res ELSE
        Ok([name |-> "", offset |-> pos_res.val, shape |-> region_size,
            palette |-> pal_res.val, array |-> arr_res.val,
            entities |-> ent_res.val, block_entities |-> te_res.val])
        )))))))

(* The loop over the Regions compound; order is the order in which the     *)
(* HashMap is iterated.                                                    *)
RECURSIVE parse_regions(_, _, _, _, _)
parse_regions(regions, order, k, host_be, result) ==
    IF k > Len(order) THEN Ok(result)
    ELSE LET key == order[k]
             tag_path == "/Regions/" \o key
             e == unwrap_tag(regions[key], "Compound", tag_path)
         IN  IF e.type # "None" THEN Err(e)
             ELSE With(parse_region(regions[key].v, tag_path, host_be), LAMBDA reg :
                      IF reg.kind # "Ok" THEN reg
                      ELSE parse_regions(regions, order, k + 1, host_be,
                                         Append(result, [reg.val EXCEPT !.name = key])))

(* Schematic::new().                                                       *)
NewMetaDataIR ==
    [mc_data_version |-> 0, time_created |-> 0, time_modified |-> 0,
     author |-> "", name |-> "", description |-> ""]

NoRawMetaData == [some |-> FALSE, v |-> NewLitematicaMetaData]

NewSchematic == [regions |-> <<>>, metadata |-> NewMetaDataIR, raw_metadata |-> NoRawMetaData]

(* The handler policy of the load option is not read (_option).            *)
from_litematica(parsed, order, option, host_be) ==
    LET e_regions == unwrap_opt_tag(parsed, "Regions", "Compound", "/Regions")
    IN  With(parse_metadata(parsed), LAMBDA md :
            IF md.kind # "Ok" THEN md
            ELSE IF e_regions.type # "None" THEN Err(e_regions)
            ELSE With(parse_regions(parsed["Regions"].v, order, 1, host_be, <<>>),
                 LAMBDA regs :
                     IF regs.kind # "Ok" THEN regs
                     ELSE Ok([regions |-> regs.val,
                              metadata |-> metadata_ir_from_litematica(md.val),
                              raw_metadata |-> [some |-> TRUE, v |-> md.val]])))

-----------------------------------------------------------------------------
(* The schematics that are saved: one to MaxRegions regions drawn from     *)
(* these, built with Region::new, reshape and the public fields.           *)

NotRun == [kind |-> "None"]
NotCrafted == [kind |-> "none"]

(* The minimal region: shape (1,1,1), palette [air], grid [0].             *)
FreshRegion == [NewRegion(<<1, 1, 1>>) EXCEPT !.name = "main", !.palette = <<Air>>]

(* Three blocks (two bits per cell), every axis told apart by the grid.    *)
GridRegion(name) ==
    [NewRegion(<<2, 3, 2>>) EXCEPT
        !.name = name,
        !.palette = SubSeq(Blocks, 1, 3),
        !.array = [c \in Cells(<<2, 3, 2>>) |-> (c[1] + 2 * c[2]) % 3]]

(* A corner at negative coordinates.                                       *)
OffsetRegion ==
    [NewRegion(<<1, 1, 1>>) EXCEPT
        !.name = "main",
        !.offset = <<-1, 0, 2>>,
        !.palette = SubSeq(Blocks, 1, 2),
        !.array = [c \in Cells(<<1, 1, 1>>) |-> 1]]

(* An entity at (0.5, -0.5, 1.0) and a block entity at (0, 0, 1).          *)
PopulatedRegion ==
    [NewRegion(<<1, 1, 2>>) EXCEPT
        !.name = "side",
        !.palette = SubSeq(Blocks, 1, 2),
        !.array = [c \in Cells(<<1, 1, 2>>) |-> c[3]],
        !.entities = <<[tags |-> [id |-> ValueString("minecraft:cow"),
                                  Pos |-> ValueList(size_to_list(<<1, -1, 2>>))],
                        position |-> <<1, -1, 2>>,
                        block_pos |-> <<0, 0, 1>>]>>,
        !.block_entities = (<<0, 0, 1>> :> [tags |-> [id |-> ValueString("minecraft:chest")]])]

SampleRegions == {FreshRegion, GridRegion("main"), OffsetRegion, PopulatedRegion}

SampleMetaData ==
    {NewMetaDataIR,
     [mc_data_version |-> 3700, time_created |-> 5, time_modified |-> 7,
      author |-> "joseph", name |-> "house", description |-> "a house"]}

(* No record of a loaded file, or the record of a Litematica file with its *)
(* own times, author, name and description.                                *)
SampleRawMetaData ==
    {NoRawMetaData,
     [some |-> TRUE,
      v |-> [data_version |-> 3465, version |-> 6, sub_version |-> [some |-> TRUE, v |-> 1],
             time_created |-> 9, time_modified |-> 11, author |-> "raw", name |-> "raw",
             description |-> "raw"]]}

SampleSchematics ==
    {[regions |-> regs, metadata |-> NewMetaDataIR, raw_metadata |-> NoRawMetaData] :
        regs \in UNION {[1 .. n -> SampleRegions] : n \in 1 .. MaxRegions}}
    \cup {[regions |-> <<GridRegion("main")>>, metadata |-> md, raw_metadata |-> raw] :
             md \in SampleMetaData, raw \in SampleRawMetaData}

(* Regions that share a name, or bear the name a renamed region is given.  *)
SameNameSchematics ==
    {[regions |-> regs, metadata |-> NewMetaDataIR, raw_metadata |-> NoRawMetaData] :
        regs \in UNION {[1 .. n -> {GridRegion("main"), GridRegion("main(1)")}] :
                           n \in 2 .. MaxSameName}}

(* The sequences that list the elements of a set once each.                *)
Orders(S) ==
    {f \in [1 .. Cardinality(S) -> S] : \A a \in S : \E k \in DOMAIN f : f[k] = a}

-----------------------------------------------------------------------------
(* Calls on a MultiBitSet, as a caller of the type can make them: it is    *)
(* built by new() and reset (region_to_nbt_litematica) or by from_data_vec *)
(* (parse_region), then read and written.                                  *)

NoCall == [op |-> "new", i |-> 0, v |-> {}, ok |-> TRUE, panic |-> FALSE, ret |-> {}]

Unwritten == [set |-> FALSE, val |-> {}]

(* Values handed to set for width w: 0, 1, the largest value, and two      *)
(* values that do not fit (2^w, and 2^63 + 1).                             *)
TestValues(w) ==
    {{}, {0}, 0 .. (w - 1)} \cup (IF w < 64 THEN {{w}, {0, 63}} ELSE {})

(* A data vector of n words with every bit set.                            *)
OnesVec(n) == [k \in 1 .. n |-> Bit]

(* No call is made on a MultiBitSet after a panic, nor on the None that    *)
(* from_data_vec returned.                                                 *)
Usable == ~ last.panic /\ ~ (last.op = "from_data_vec" /\ ~ last.ok)

MbsIdle ==
    /\ mbs = new
    /\ written = <<>>
    /\ last = NoCall
    /\ resets = 0

BitsIdle ==
    /\ palette_size = 0
    /\ bits = -1

(* No schematic is being saved or loaded.                                  *)
CodecIdle ==
    /\ schematic = NewSchematic
    /\ big_endian = FALSE
    /\ saved = NotRun
    /\ tree = EmptyMap
    /\ crafted = NotCrafted
    /\ loaded = NotRun

Init ==
    /\ MbsIdle
    /\ BitsIdle
    /\ CodecIdle

(* MultiBitSet::reset(w, len).                                             *)
ResetCall(w, len) ==
    /\ IF reset_panics(w)
       THEN /\ last' = [NoCall EXCEPT !.op = "reset", !.panic = TRUE]
            /\ UNCHANGED <<mbs, written>>
       ELSE /\ mbs' = reset(mbs, w, len)
            /\ written' = [i \in 0 .. (len - 1) |-> Unwritten]
            /\ last' = [NoCall EXCEPT !.op = "reset"]
    /\ resets' = resets + 1
    /\ UNCHANGED <<bits_vars, codec_vars>>

Reset(w, len) ==
    /\ last.op = "new"
    /\ ResetCall(w, len)

FromDataVec(n, w, len) ==
    /\ last.op = "new"
    /\ LET r == from_data_vec(OnesVec(n), len, w)
       IN  IF r.some
           THEN /\ mbs' = r.s
                /\ written' = [i \in 0 .. (len - 1) |-> Unwritten]
                /\ last' = [NoCall EXCEPT !.op = "from_data_vec"]
           ELSE /\ last' = [NoCall EXCEPT !.op = "from_data_vec", !.ok = FALSE]
                /\ UNCHANGED <<mbs, written>>
    /\ UNCHANGED <<resets, bits_vars, codec_vars>>

Set(i, v) ==
    /\ Usable
    /\ \E r \in {set(mbs, i, v)} :
           /\ mbs' = r.s
           /\ written' = IF r.ok THEN [written EXCEPT ![i] = [set |-> TRUE, val |-> v]]
                         ELSE written
           /\ last' = [NoCall EXCEPT !.op = "set", !.i = i, !.v = v,
                                     !.ok = r.ok, !.panic = r.panic]
    /\ UNCHANGED <<resets, bits_vars, codec_vars>>

Get(i) ==
    /\ Usable
    /\ \E r \in {get(mbs, i)} :
           last' = [NoCall EXCEPT !.op = "get", !.i = i, !.panic = r.panic, !.ret = r.val]
    /\ UNCHANGED <<mbs, written, resets, bits_vars, codec_vars>>

Next ==
    \/ \E w \in Widths \cup {0}, len \in 0 .. MaxLen : Reset(w, len)
    \/ \E n \in 0 .. MaxDataLen, w \in Widths \cup {0}, len \in 0 .. MaxLen :
          FromDataVec(n, w, len)
    \/ \E i \in 0 .. MaxLen, v \in TestValues(mbs.element_bits) : Set(i, v)
    \/ \E i \in 0 .. MaxLen : Get(i)

Spec == Init /\ [][Next]_vars

-----------------------------------------------------------------------------
(* A MultiBitSet that is reset again after it was reset and written.       *)

ResetAgain(w, len) ==
    /\ last.op # "new"
    /\ Usable
    /\ resets < MaxResets
    /\ ResetCall(w, len)

(* Values handed to set between the resets: 0, the largest value of width  *)
(* w and 2^w, which does not fit.                                          *)
ReuseValues(w) == {{}, 0 .. (w - 1)} \cup (IF w < 64 THEN {{w}} ELSE {})

ReuseNext ==
    \/ \E w \in Widths \cup {0}, len \in 0 .. MaxReuseLen : Reset(w, len)
    \/ \E w \in Widths \cup {0}, len \in 0 .. MaxReuseLen : ResetAgain(w, len)
    \/ \E i \in 0 .. MaxReuseLen, v \in ReuseValues(mbs.element_bits) : Set(i, v)
    \/ \E i \in 0 .. MaxReuseLen : Get(i)

SpecReuse == Init /\ [][ReuseNext]_vars

-----------------------------------------------------------------------------
(* Filling a MultiBitSet front to back, as the save loop of                *)
(* region_to_nbt_litematica does; element i receives i + 1 (cut to the     *)
(* element width).                                                         *)

FillValue(w, i) == ToU64(i + 1) \cap (0 .. (w - 1))

FillReset(w, len) ==
    /\ last.op = "new"
    /\ mbs' = reset(mbs, w, len)
    /\ written' = [i \in 0 .. (len - 1) |-> Unwritten]
    /\ last' = [NoCall EXCEPT !.op = "reset"]
    /\ resets' = resets + 1
    /\ UNCHANGED <<bits_vars, codec_vars>>

FillSet ==
    /\ last.op # "new"
    /\ Usable
    /\ \E i \in 0 .. (mbs.length - 1) :
          /\ ~ written[i].set
          /\ \A j \in 0 .. (i - 1) : written[j].set
          /\ \E r \in {set(mbs, i, FillValue(mbs.element_bits, i))} :
                 /\ mbs' = r.s
                 /\ written' = IF r.ok
                               THEN [written EXCEPT ![i] =
                                        [set |-> TRUE, val |-> FillValue(mbs.element_bits, i)]]
                               ELSE written
                 /\ last' = [NoCall EXCEPT !.op = "set", !.i = i,
                                           !.v = FillValue(mbs.element_bits, i),
                                           !.ok = r.ok, !.panic = r.panic]
    /\ UNCHANGED <<resets, bits_vars, codec_vars>>

FillNext ==
    \/ \E w \in FillWidths, len \in 0 .. MaxFillLen : FillReset(w, len)
    \/ FillSet

SpecFill == Init /\ [][FillNext]_vars

-----------------------------------------------------------------------------
(* block_required_bits applied to a palette size.                          *)

BitsInit ==
    /\ MbsIdle
    /\ CodecIdle
    /\ palette_size \in 0 .. MaxPaletteSize
    /\ bits = -1

RequiredBits ==
    /\ bits = -1
    /\ bits' = block_required_bits(palette_size)
    /\ UNCHANGED <<mbs_vars, palette_size, codec_vars>>

SpecBits == BitsInit /\ [][RequiredBits]_vars

-----------------------------------------------------------------------------
(* Saving a schematic, then loading the tree, as it was saved or after one *)
(* packed element of a region was overwritten.                             *)

CodecInit ==
    /\ MbsIdle
    /\ BitsIdle
    /\ schematic \in SampleSchematics \cup SameNameSchematics
    /\ big_endian \in BOOLEAN
    /\ saved = NotRun
    /\ tree = EmptyMap
    /\ crafted = NotCrafted
    /\ loaded = NotRun

(* Schematic::to_nbt_litematica(option).                                   *)
Save(rename) ==
    /\ saved.kind = "None"
    /\ \E te_orders \in [1 .. Len(schematic.regions) ->
                           UNION {Orders(DOMAIN schematic.regions[k].block_entities) :
                                      k \in 1 .. Len(schematic.regions)}] :
          /\ \A k \in 1 .. Len(schematic.regions) :
                 te_orders[k] \in Orders(DOMAIN schematic.regions[k].block_entities)
          /\ \E r \in {to_nbt_litematica(schematic, rename, te_orders, big_endian)} :
                 /\ saved' = IF r.kind = "Err"
                             THEN [kind |-> "Err", rename |-> rename, err |-> r.err]
                             ELSE [kind |-> r.kind, rename |-> rename]
                 /\ tree' = IF r.kind = "Ok" THEN r.nbt ELSE tree
    /\ UNCHANGED <<mbs_vars, bits_vars, schematic, big_endian, crafted, loaded>>

(* The MultiBitSet that parse_region builds from the BlockStates, Size and  *)
(* BlockStatePalette of a saved region.                                    *)
packed_block_states(region_nbt, be) ==
    LET size == region_nbt["Size"].v
    IN  [arr |-> [k \in 1 .. Len(region_nbt["BlockStates"].v) |->
                     u64_from_ne_bytes_of_le(region_nbt["BlockStates"].v[k], be)],
         length |-> size["x"].v * size["y"].v * size["z"].v,
         element_bits |-> block_required_bits(Len(region_nbt["BlockStatePalette"].v))]

(* The saved BlockStates of one region with element idx overwritten by v.  *)
poke_block_states(region_nbt, idx, v, be) ==
    LET s == packed_block_states(region_nbt, be)
    IN  With(set(s, idx, ToU64(v)).s.arr, LAMBDA poked :
            [region_nbt EXCEPT !["BlockStates"] =
                ValueLongArray([k \in 1 .. Len(poked) |->
                                   i64_from_le_bytes_of_ne(poked[k], be)])])

(* A file whose packed element idx of region name holds v, a value that    *)
(* fits the element width and is not an index of the palette.              *)
CraftIndex(name, idx, v) ==
    /\ saved.kind = "Ok"
    /\ crafted.kind = "none"
    /\ loaded.kind = "None"
    /\ name \in DOMAIN tree["Regions"].v
    /\ LET region_nbt == tree["Regions"].v[name].v
           size == region_nbt["Size"].v
           palette_len == Len(region_nbt["BlockStatePalette"].v)
       IN  /\ idx < size["x"].v * size["y"].v * size["z"].v
           /\ v >= palette_len
           /\ v < 2 ^ block_required_bits(palette_len)
           /\ tree' = [tree EXCEPT !["Regions"].v[name].v =
                                     poke_block_states(region_nbt, idx, v, big_endian)]
    /\ crafted' = [kind |-> "index", name |-> name, idx |-> idx, v |-> v]
    /\ UNCHANGED <<mbs_vars, bits_vars, schematic, big_endian, saved, loaded>>

(* A file whose BlockStates LongArray of region name holds only its first  *)
(* n words, fewer than the region's elements need (n = 0: an empty array).  *)
CraftBlockStates(name, n) ==
    /\ saved.kind = "Ok"
    /\ crafted.kind = "none"
    /\ loaded.kind = "None"
    /\ name \in DOMAIN tree["Regions"].v
    /\ LET region_nbt == tree["Regions"].v[name].v
           words == region_nbt["BlockStates"].v
       IN  /\ n < Len(words)
           /\ tree' = [tree EXCEPT !["Regions"].v[name].v["BlockStates"] =
                                     ValueLongArray(SubSeq(words, 1, n))]
    /\ crafted' = [kind |-> "block_states", name |-> name, n |-> n, base |-> tree]
    /\ UNCHANGED <<mbs_vars, bits_vars, schematic, big_endian, saved, loaded>>

(* The x, y, z given to a block entity of a file: the origin, or one axis   *)
(* moved off it.                                                           *)
TestPositions ==
    {pos \in [1 .. 3 -> (-1) .. MaxCoord] :
        Cardinality({d \in 1 .. 3 : pos[d] # 0}) <= 1}

(* A member of a compound that is as it should be, absent, or of another   *)
(* type.                                                                   *)
NoFault == [kind |-> "none"]
MemberFaults == {NoFault} \cup [kind : {"missing", "mistyped"}, key : {"x", "y", "z"}]

(* A compound of /Regions/<name>/TileEntities.                             *)
tile_entity_nbt(pos, fault) ==
    LET full == [id |-> ValueString("minecraft:chest"),
                 x |-> ValueInt(pos[1]), y |-> ValueInt(pos[2]), z |-> ValueInt(pos[3])]
    IN  CASE fault.kind = "none" -> full
          [] fault.kind = "missing" -> [k \in (DOMAIN full) \ {fault.key} |-> full[k]]
          [] fault.kind = "mistyped" ->
                 [full EXCEPT ![fault.key] = ValueLong(full[fault.key].v)]

(* A file with one more compound at the end of the TileEntities of region  *)
(* name.                                                                   *)
CraftTileEntity(name, pos, fault) ==
    /\ saved.kind = "Ok"
    /\ crafted.kind = "none"
    /\ loaded.kind = "None"
    /\ Len(schematic.regions) <= MaxCraftRegions
    /\ name \in DOMAIN tree["Regions"].v
    /\ fault.kind # "none" => pos = <<0, 0, 0>>
    /\ LET te_list == tree["Regions"].v[name].v["TileEntities"].v
       IN  /\ tree' = [tree EXCEPT !["Regions"].v[name].v["TileEntities"].v =
                           Append(te_list, ValueCompound(tile_entity_nbt(pos, fault)))]
           /\ crafted' = [kind |-> "tile_entity", name |-> name, idx |-> Len(te_list),
                          pos |-> pos, fault |-> fault, base |-> tree]
    /\ UNCHANGED <<mbs_vars, bits_vars, schematic, big_endian, saved, loaded>>

(* The Pos lists given to an entity of a file, in halves: (-0.5, -1.5,     *)
(* 2.5), (-1.0, 0.0, 1.5), and lists of 0, 2 and 4 doubles.                *)
TestPosLists == {<<-1, -3, 5>>, <<-2, 0, 3>>, <<>>, <<1, 1>>, <<1, 1, 1, 1>>}

(* A compound of /Regions/<name>/Entities.                                 *)
entity_nbt(pos) ==
    [id |-> ValueString("minecraft:cow"),
     Pos |-> ValueList([k \in 1 .. Len(pos) |-> ValueDouble(pos[k])])]

(* A file with one more compound at the end of the Entities of region name. *)
CraftEntity(name, pos) ==
    /\ saved.kind = "Ok"
    /\ crafted.kind = "none"
    /\ loaded.kind = "None"
    /\ Len(schematic.regions) <= MaxCraftRegions
    /\ name \in DOMAIN tree["Regions"].v
    /\ LET entities_list == tree["Regions"].v[name].v["Entities"].v
       IN  /\ tree' = [tree EXCEPT !["Regions"].v[name].v["Entities"].v =
                           Append(entities_list, ValueCompound(entity_nbt(pos)))]
           /\ crafted' = [kind |-> "entity", name |-> name, idx |-> Len(entities_list),
                          pos |-> pos, base |-> tree]
    /\ UNCHANGED <<mbs_vars, bits_vars, schematic, big_endian, saved, loaded>>

(* The tags that from_litematica requires, as paths of keys from the root. *)
RegionTags ==
    {"Position", "Size", "BlockStatePalette", "BlockStates", "Entities", "TileEntities"}

RequiredPaths ==
    {<<"MinecraftDataVersion">>, <<"Version">>, <<"Metadata">>, <<"Regions">>,
     <<"Metadata", "TimeCreated">>, <<"Metadata", "TimeModified">>,
     <<"Metadata", "EnclosingSize">>, <<"Metadata", "Description">>,
     <<"Metadata", "Author">>, <<"Metadata", "Name">>}
    \cup {<<"Regions", name, key>> :
             name \in {r.name : r \in SampleRegions}, key \in RegionTags}

(* The compound map without the tag at path.                               *)
RECURSIVE remove_at(_, _)
remove_at(map, path) ==
    IF Len(path) = 1 THEN [k \in (DOMAIN map) \ {path[1]} |-> map[k]]
    ELSE [map EXCEPT ![path[1]] = ValueCompound(remove_at(map[path[1]].v, Tail(path)))]

(* A value of another type than tag.                                       *)
other_value(tag) == IF tag = "String" THEN ValueInt(0) ELSE ValueString("")

(* The compound map with a value of another type at path.                  *)
RECURSIVE retype_at(_, _)
retype_at(map, path) ==
    IF Len(path) = 1 THEN [map EXCEPT ![path[1]] = other_value(map[path[1]].tag)]
    ELSE [map EXCEPT ![path[1]] = ValueCompound(retype_at(map[path[1]].v, Tail(path)))]

(* A file in which one required tag is absent or has another type.         *)
CraftTag(path, fault) ==
    /\ saved.kind = "Ok"
    /\ crafted.kind = "none"
    /\ loaded.kind = "None"
    /\ Len(schematic.regions) <= MaxCraftRegions
    /\ Len(path) = 3 => path[2] \in DOMAIN tree["Regions"].v
    /\ tree' = IF fault = "missing" THEN remove_at(tree, path) ELSE retype_at(tree, path)
    /\ crafted' = [kind |-> "tag", path |-> path, fault |-> fault, base |-> tree]
    /\ UNCHANGED <<mbs_vars, bits_vars, schematic, big_endian, saved, loaded>>

(* Schematic::from_litematica(src, option).                                *)
Load(policy, order) ==
    /\ saved.kind = "Ok"
    /\ loaded.kind = "None"
    /\ \E r \in {from_litematica(tree, order, policy, big_endian)} :
          loaded' = IF r.kind = "Ok"
                    THEN [kind |-> "Ok", policy |-> policy, order |-> order, val |-> r.val]
                    ELSE IF r.kind = "Err"
                    THEN [kind |-> "Err", policy |-> policy, order |-> order, err |-> r.err]
                    ELSE [kind |-> "Panic", policy |-> policy, order |-> order]
    /\ UNCHANGED <<mbs_vars, bits_vars, schematic, big_endian, saved, tree, crafted>>

RegionNames == {r.name : r \in SampleRegions} \cup {r.name \o "(1)" : r \in SampleRegions}

CodecNext ==
    \/ \E rename \in BOOLEAN : Save(rename)
    \/ \E name \in RegionNames, idx \in 0 .. (MaxCells - 1), v \in 0 .. MaxIndex :
          CraftIndex(name, idx, v)
    \/ \E name \in RegionNames, pos \in TestPositions, fault \in MemberFaults :
          CraftTileEntity(name, pos, fault)
    \/ \E name \in RegionNames, pos \in TestPosLists : CraftEntity(name, pos)
    \/ \E path \in RequiredPaths, fault \in {"missing", "mistyped"} : CraftTag(path, fault)
    \/ \E name \in RegionNames, n \in 0 .. (MaxDataLen - 1) : CraftBlockStates(name, n)
    \/ \E policy \in {"Strict", "Default"}, order \in Orders(DOMAIN members(tree, "Regions")) :
          Load(policy, order)

SpecCodec == CodecInit /\ [][CodecNext]_vars

-----------------------------------------------------------------------------
(* Claims about MultiBitSet.                                               *)

AllWritten == \A i \in 0 .. (mbs.length - 1) : written[i].set

Straddles(i) == i < mbs.length /\ ~ is_element_on_single_block(mbs, i)

(* C1: after new() and reset(W, L) (or from_data_vec), whatever the order  *)
(* of the set calls and however often an index is overwritten, get(i)      *)
(* returns the value last written to i, for every written i < L.           *)
C1_GetReturnsLastWritten ==
    Usable =>
        \A i \in 0 .. (mbs.length - 1) :
            written[i].set => get(mbs, i) = [panic |-> FALSE, val |-> written[i].val]

(* C1 witness: three 33-bit elements, all written, the straddling element  *)
(* 1 overwritten with the largest value and read back.                     *)
C1_Witness ==
    /\ mbs.element_bits = 33 /\ mbs.length = 3 /\ AllWritten
    /\ Straddles(1)
    /\ written[0].val = {0} /\ written[1].val = 0 .. 32 /\ written[2].val = {0}
    /\ last.op = "get" /\ last.i = 1 /\ ~ last.panic /\ last.ret = 0 .. 32

(* Value bit b of element i sits at bit (i*W + b) counted from bit 0 of    *)
(* word 0 upward (least significant bit first).                            *)
LsbFirstBit(i, b) ==
    LET off == i * mbs.element_bits + b
    IN  (off % 64) \in mbs.arr[(off \div 64) + 1]

(* Value bit b of element i sits at offset i*W + (W-1-b) counted from bit  *)
(* 63 of word 0 downward (most significant bit first).                     *)
MsbFirstBit(i, b) ==
    LET off == i * mbs.element_bits + (mbs.element_bits - 1 - b)
    IN  (63 - (off % 64)) \in mbs.arr[(off \div 64) + 1]

Scenario == mbs.element_bits = 5 /\ mbs.length = 13 /\ AllWritten

(* C2 as stated: the layout is most-significant-bit first; for W=5, L=13   *)
(* and values 1..13 the top 5 bits of word 0 are 0b00001 and the next 5    *)
(* are 0b00010.                                                            *)
C2_MsbFirstLayout ==
    /\ \A i \in 0 .. (mbs.length - 1) :
           written[i].set =>
               \A b \in 0 .. (mbs.element_bits - 1) :
                   (b \in written[i].val) <=> MsbFirstBit(i, b)
    /\ Scenario => /\ mbs.arr[1] \cap (59 .. 63) = {59}
                   /\ mbs.arr[1] \cap (54 .. 58) = {55}

(* C2 amended: the layout is least-significant-bit first: element i        *)
(* occupies the W bits i*W .. i*W + W-1 counted from bit 0 of word 0, an   *)
(* element that does not fit continues at bit 0 of the next word; for W=5, *)
(* L=13 and values 1..13 the low 5 bits of word 0 are 0b00001 and the next *)
(* 5 bits (5..9) are 0b00010.                                              *)
C2_LsbFirstLayout ==
    /\ \A i \in 0 .. (mbs.length - 1) :
           written[i].set =>
               \A b \in 0 .. (mbs.element_bits - 1) :
                   (b \in written[i].val) <=> LsbFirstBit(i, b)
    /\ Scenario => /\ mbs.arr[1] \cap (0 .. 4) = {0}
                   /\ mbs.arr[1] \cap (5 .. 9) = {6}

(* C2 witness: the documented scenario, filled; element 12 straddles.      *)
C2_Witness ==
    /\ Scenario
    /\ Straddles(12)
    /\ written[12].val = ToU64(13)
    /\ Len(mbs.arr) = 2

(* C3: a successful set(i, v) leaves get(j) as it was for every j # i, and *)
(* leaves the length, the element width and the number of words unchanged. *)
C3_SetFrame ==
    [][(last'.op = "set" /\ last'.ok) =>
          /\ \A j \in 0 .. (mbs.length - 1) : j # last'.i => get(mbs', j) = get(mbs, j)
          /\ mbs'.length = mbs.length
          /\ mbs'.element_bits = mbs.element_bits
          /\ Len(mbs'.arr) = Len(mbs.arr)]_vars

(* C3 witness: the straddling element 1 of three 33-bit elements is        *)
(* cleared while both neighbours hold the largest value.                   *)
C3_Witness ==
    /\ mbs.element_bits = 33 /\ mbs.length = 3 /\ AllWritten
    /\ Straddles(1)
    /\ last.op = "set" /\ last.ok /\ last.i = 1 /\ last.v = {}
    /\ written[0].val = 0 .. 32 /\ written[2].val = 0 .. 32

(* v >= 2^w.                                                               *)
TooBig(v, w) == \E b \in v : b >= w

(* C4: set(i, v) returns Err exactly when v >= 2^W or i >= L (and never    *)
(* panics), and an Err leaves every backing word unchanged.                *)
C4_SetErrExactly ==
    [][last'.op = "set" =>
          /\ ~ last'.panic
          /\ (~ last'.ok) <=> (TooBig(last'.v, mbs.element_bits) \/ last'.i >= mbs.length)
          /\ (~ last'.ok) => mbs' = mbs]_vars

(* C4 witness: set(1, 2^33) is refused on three written 33-bit elements.   *)
C4_Witness ==
    /\ mbs.element_bits = 33 /\ mbs.length = 3 /\ AllWritten
    /\ written[1].val = 0 .. 32
    /\ last.op = "set" /\ ~ last.ok /\ last.i = 1 /\ last.v = {33}

-----------------------------------------------------------------------------
(* Claims about block_required_bits.                                       *)

(* The smallest w >= 1 with 2^w >= p.                                      *)
SmallestWidth(p) ==
    CHOOSE w \in 1 .. IndexBits : (2 ^ w) >= p /\ \A u \in 1 .. (w - 1) : (2 ^ u) < p

(* C5: block_required_bits(P) is the smallest W >= 1 with 2^W >= P; it is  *)
(* 1, never 0, for P = 1.                                                  *)
C5_RequiredBitsAtLeastOne ==
    bits # -1 => bits = SmallestWidth(palette_size)

-----------------------------------------------------------------------------
(* Claims about saving and loading.                                        *)

SavedRegion(name) == tree["Regions"].v[name].v

DistinctNames ==
    \A j, k \in 1 .. Len(schematic.regions) :
        j # k => schematic.regions[j].name # schematic.regions[k].name

(* The entities agree on position and tags, the block entities as a set of *)
(* position/tags pairs, and the rest is equal.                             *)
SameRegion(a, b) ==
    /\ a.name = b.name
    /\ a.palette = b.palette
    /\ a.array = b.array
    /\ a.offset = b.offset
    /\ a.shape = b.shape
    /\ Len(a.entities) = Len(b.entities)
    /\ \A k \in 1 .. Len(a.entities) :
           /\ a.entities[k].position = b.entities[k].position
           /\ a.entities[k].tags = b.entities[k].tags
    /\ {<<pos, a.block_entities[pos].tags>> : pos \in DOMAIN a.block_entities}
           = {<<pos, b.block_entities[pos].tags>> : pos \in DOMAIN b.block_entities}

(* C6: saving any schematic succeeds and loading the result succeeds and   *)
(* yields the regions of the schematic in the same order, each with the    *)
(* same name, palette, grid, offset, shape, entities and block entities.   *)
C6_RoundTrip ==
    /\ saved.kind \in {"None", "Ok"}
    /\ (crafted.kind = "none" /\ loaded.kind # "None") =>
           /\ loaded.kind = "Ok"
           /\ Len(loaded.val.regions) = Len(schematic.regions)
           /\ \A k \in 1 .. Len(schematic.regions) :
                  SameRegion(schematic.regions[k], loaded.val.regions[k])

(* C7: the schematic of one region of shape (1,1,1), palette [air] and     *)
(* grid [0] is saved without a failed assertion, with all BlockStates      *)
(* words zero, and loads back with the same shape, palette and grid.       *)
C7_MinimalRegionRoundTrip ==
    schematic.regions = <<FreshRegion>> =>
        /\ saved.kind \in {"None", "Ok"}
        /\ saved.kind = "Ok" =>
               \A k \in DOMAIN SavedRegion("main")["BlockStates"].v :
                   SavedRegion("main")["BlockStates"].v[k] = {}
        /\ (saved.kind = "Ok" /\ crafted.kind = "none" /\ loaded.kind # "None") =>
               /\ loaded.kind = "Ok"
               /\ Len(loaded.val.regions) = 1
               /\ loaded.val.regions[1].shape = FreshRegion.shape
               /\ loaded.val.regions[1].palette = FreshRegion.palette
               /\ loaded.val.regions[1].array = FreshRegion.array

(* The packed element of cell (x, y, z) in a grid of shape (W, H, D).      *)
ElementIndex(shape, c) == (c[2] * shape[3] + c[3]) * shape[1] + c[1]

(* The packed elements of the saved region hold the grid of region, cell   *)
(* by cell.                                                                *)
SavedFromCells(region) ==
    LET s == packed_block_states(SavedRegion(region.name), big_endian)
    IN  \A c \in Cells(region.shape) :
            get(s, ElementIndex(region.shape, c))
                = [panic |-> FALSE, val |-> ToU64(region.array[c])]

LoadedIntoCells(region) ==
    LET s == packed_block_states(SavedRegion(region.name), big_endian)
    IN  \A c \in Cells(region.shape) :
            region.array[c] = AsU16(get(s, ElementIndex(region.shape, c)).val)

(* C8: the packed element (y*D + z)*W + x of a saved region is the one     *)
(* written from grid cell (x, y, z), and it is the one a load stores into  *)
(* grid cell (x, y, z).                                                    *)
C8_SameYZXOrder ==
    /\ (saved.kind = "Ok" /\ crafted.kind = "none" /\ DistinctNames) =>
           \A k \in 1 .. Len(schematic.regions) : SavedFromCells(schematic.regions[k])
    /\ loaded.kind = "Ok" =>
           \A k \in 1 .. Len(loaded.val.regions) : LoadedIntoCells(loaded.val.regions[k])

(* C8 witness: the 2x3x2 grid, saved on a big-endian host and loaded.      *)
C8_Witness ==
    /\ schematic.regions = <<GridRegion("main")>>
    /\ big_endian
    /\ saved.kind = "Ok"
    /\ crafted.kind = "none"
    /\ loaded.kind = "Ok"
    /\ loaded.val.regions[1].array = GridRegion("main").array

InRange(region) ==
    \A c \in Cells(region.shape) :
        region.array[c] >= 0 /\ region.array[c] < Len(region.palette)

(* The load gets as far as the get loop over the BlockStates of region     *)
(* name: the metadata, the regions visited before it and its own Position, *)
(* palette and Size are parsed without an error.                           *)
ReachesBlockStates(name) ==
    /\ parse_metadata(tree).kind = "Ok"
    /\ \A k \in 1 .. Len(loaded.order) :
           LET key == loaded.order[k]
               tag_path == "/Regions/" \o key
           IN  IF \E j \in 1 .. (k - 1) : loaded.order[j] = name THEN TRUE
               ELSE IF key # name
               THEN parse_region(SavedRegion(key), tag_path, big_endian).kind = "Ok"
               ELSE /\ parse_size_compound(SavedRegion(key)["Position"].v,
                                           tag_path \o "/Position", FALSE).kind = "Ok"
                    /\ parse_palette(SavedRegion(key)["BlockStatePalette"].v,
                                     tag_path, 0, <<>>).kind = "Ok"
                    /\ parse_size_compound(SavedRegion(key)["Size"].v,
                                           tag_path \o "/Size", FALSE).kind = "Ok"

AirIndex(palette) ==
    IF \E k \in 1 .. Len(palette) : palette[k] = Air
    THEN (CHOOSE k \in 1 .. Len(palette) :
              palette[k] = Air /\ \A j \in 1 .. (k - 1) : palette[j] # Air) - 1
    ELSE Len(palette)

(* C10: with the Default policy, a file whose cell encodes the index       *)
(* len(palette) loads, and the cell holds the index of air; the error      *)
(* BlockIndexOutOfRange is returned with the Strict policy only.           *)
C10_DefaultPolicyRepairs ==
    (/\ crafted.kind = "index"
     /\ loaded.kind # "None"
     /\ loaded.policy = "Default"
     /\ crafted.v = Len(SavedRegion(crafted.name)["BlockStatePalette"].v)
     /\ \A name \in DOMAIN tree["Regions"].v : ReachesBlockStates(name)) =>
        /\ loaded.kind = "Ok"
        /\ \A k \in 1 .. Len(loaded.val.regions) :
               loaded.val.regions[k].name = crafted.name =>
                   \A c \in Cells(loaded.val.regions[k].shape) :
                       ElementIndex(loaded.val.regions[k].shape, c) = crafted.idx =>
                           loaded.val.regions[k].array[c]
                               = AirIndex(loaded.val.regions[k].palette)

-----------------------------------------------------------------------------
(* Claims about region names.                                              *)

SavedKeys == DOMAIN tree["Regions"].v

(* old(k).                                                                 *)
Numbered(old, k) == old \o "(" \o ToString(k) \o ")"

(* The key a region named old is to be stored under when the keys in keys  *)
(* are taken: old, or old(k) for the smallest k >= 1 that is free.         *)
FreeKey(keys, old) ==
    IF old \notin keys THEN old
    ELSE Numbered(old, CHOOSE k \in 1 .. (MaxSameName + 1) :
                           /\ Numbered(old, k) \notin keys
                           /\ \A j \in 1 .. (k - 1) : Numbered(old, j) \in keys)

RECURSIVE FreeKeys(_, _, _)
FreeKeys(regs, k, keys) ==
    IF k > Len(regs) THEN keys
    ELSE FreeKeys(regs, k + 1, keys \cup {FreeKey(keys, regs[k].name)})

(* C11: a save of regions that share a name returns DuplicatedRegionName   *)
(* without the rename option; with it the save succeeds, /Regions has one  *)
(* key per region, and a colliding region is stored under old(k) for the   *)
(* smallest k >= 1 that is free (saves that end in a failed assertion set  *)
(* aside).                                                                 *)
C11_RenameDuplicates ==
    (saved.kind \notin {"None", "Panic"} /\ ~ DistinctNames) =>
        IF ~ saved.rename
        THEN saved.kind = "Err" /\ saved.err.type = "DuplicatedRegionName"
        ELSE /\ saved.kind = "Ok"
             /\ Cardinality(SavedKeys) = Len(schematic.regions)
             /\ SavedKeys = FreeKeys(schematic.regions, 1, {})

(* C19: a save with the rename option returns; it never searches for a     *)
(* free name forever.                                                      *)
C19_RenameTerminates ==
    (saved.kind # "None" /\ saved.rename) => saved.kind # "Hang"

-----------------------------------------------------------------------------
(* Claims about the positions read by a load.                              *)

Regions(schem) == {schem.regions[k] : k \in 1 .. Len(schem.regions)}

Negative(triple) == \E d \in 1 .. 3 : triple[d] < 0

(* C12: a file as it was saved from regions of which one has a negative    *)
(* offset loads, and the loaded regions have the offsets that were saved.  *)
C12_NegativePositionLoads ==
    (/\ crafted.kind = "none"
     /\ loaded.kind # "None"
     /\ \E r \in Regions(schematic) : Negative(r.offset)) =>
        /\ loaded.kind = "Ok"
        /\ {r.offset : r \in Regions(loaded.val)} = {r.offset : r \in Regions(schematic)}

(* The file before the extra compound or the fault was put in loads, with  *)
(* the regions visited in the same order.                                  *)
BaselineLoads ==
    from_litematica(crafted.base, loaded.order, loaded.policy, big_endian).kind = "Ok"

(* The Size of the region of the file that was added to.                   *)
CraftedShape ==
    LET size == SavedRegion(crafted.name)["Size"].v
    IN  <<size["x"].v, size["y"].v, size["z"].v>>

OutOfRange(pos, shape) == \E d \in 1 .. 3 : pos[d] < 0 \/ pos[d] > shape[d]

(* The positions of the block entities of the region before the added one. *)
Occupied ==
    LET te_list == crafted.base["Regions"].v[crafted.name].v["TileEntities"].v
    IN  {<<te_list[k].v["x"].v, te_list[k].v["y"].v, te_list[k].v["z"].v>> :
            k \in 1 .. Len(te_list)}

LoadedRegion(name) == CHOOSE r \in Regions(loaded.val) : r.name = name

(* A well-formed block entity was added to a file that loaded, and the     *)
(* file was loaded.                                                        *)
TileEntityRead ==
    /\ crafted.kind = "tile_entity"
    /\ crafted.fault.kind = "none"
    /\ loaded.kind # "None"
    /\ BaselineLoads

(* C13: a block entity with a coordinate below 0 or above the shape is     *)
(* rejected with BlockPosOutOfRange, its position and the shape; one with  *)
(* all coordinates in [0, shape[axis]] at a free position is stored under  *)
(* its position with its tags less x, y and z.                             *)
C13_BlockPosChecked ==
    TileEntityRead =>
        IF OutOfRange(crafted.pos, CraftedShape)
        THEN /\ loaded.kind = "Err"
             /\ loaded.err.type = "BlockPosOutOfRange"
             /\ loaded.err.pos = crafted.pos
             /\ loaded.err.range = CraftedShape
        ELSE crafted.pos \notin Occupied =>
                 /\ loaded.kind = "Ok"
                 /\ crafted.pos \in DOMAIN LoadedRegion(crafted.name).block_entities
                 /\ LoadedRegion(crafted.name).block_entities[crafted.pos].tags
                        = [id |-> ValueString("minecraft:chest")]

(* C14: every block entity of a loaded region sits at a position within    *)
(* [0, shape) on each axis, and a block entity at the position of an       *)
(* earlier one makes the load fail with MultipleBlockEntityInOnePos.       *)
C14_BlockEntityKeysInShape ==
    /\ loaded.kind = "Ok" =>
           \A r \in Regions(loaded.val) : \A pos \in DOMAIN r.block_entities :
               \A d \in 1 .. 3 : 0 <= pos[d] /\ pos[d] < r.shape[d]
    /\ (TileEntityRead /\ crafted.pos \in Occupied) =>
           /\ loaded.kind = "Err"
           /\ loaded.err.type = "MultipleBlockEntityInOnePos"
           /\ loaded.err.pos = crafted.pos

-----------------------------------------------------------------------------
(* Claims about the metadata.                                              *)

(* C15: the schematic loaded from a saved schematic has its metadata: the  *)
(* same mc_data_version, time_created, time_modified, author, name and     *)
(* description.                                                            *)
C15_MetaDataRoundTrip ==
    (crafted.kind = "none" /\ loaded.kind = "Ok") =>
        loaded.val.metadata = schematic.metadata

-----------------------------------------------------------------------------
(* Claims about a MultiBitSet that is reset.                               *)

(* C16: after reset(W, L), whatever was reset and set before, there are    *)
(* ceil(L*W/64) backing words, all of them zero, and get(i) is 0 for every *)
(* i < L.                                                                  *)
C16_ResetZeroes ==
    (last.op = "reset" /\ ~ last.panic) =>
        /\ Len(mbs.arr) = (mbs.length * mbs.element_bits + 63) \div 64
        /\ \A k \in 1 .. Len(mbs.arr) : mbs.arr[k] = {}
        /\ \A i \in 0 .. (mbs.length - 1) : get(mbs, i) = [panic |-> FALSE, val |-> {}]

(* Element i lies in one backing word, or in two consecutive ones with two *)
(* parts of positive width that add up to the element width.               *)
WellPlaced(i) ==
    LET p == Place(mbs, i)
    IN  /\ p.u64idx_f < Len(mbs.arr) /\ p.u64idx_l < Len(mbs.arr)
        /\ IF p.single
           THEN p.u64idx_f = p.u64idx_l
           ELSE /\ p.u64idx_f = p.u64idx_l + 1
                /\ p.l_part_bits > 0 /\ p.f_part_bits > 0
                /\ p.l_part_bits + p.f_part_bits = mbs.element_bits

(* C20: on a MultiBitSet made by reset, get(i) and set(i, v) with i < L and *)
(* v < 2^W fail no assertion and stay within the backing words, every      *)
(* element is well placed, get(i) is below 2^W, and get fails an assertion *)
(* only for i >= L.                                                        *)
C20_GetSetInBounds ==
    /\ \A i \in 0 .. (mbs.length - 1) :
           /\ WellPlaced(i)
           /\ ~ BodyPanics(mbs, i)
           /\ ~ get(mbs, i).panic
           /\ get(mbs, i).val \subseteq 0 .. (mbs.element_bits - 1)
           /\ \A v \in ReuseValues(mbs.element_bits) :
                  ~ TooBig(v, mbs.element_bits) =>
                      set(mbs, i, v).ok /\ ~ set(mbs, i, v).panic
    /\ \A i \in mbs.length .. MaxReuseLen : get(mbs, i).panic
    /\ (last.op \in {"get", "set"} /\ last.panic) =>
           last.op = "get" /\ last.i >= mbs.length

(* C20 witness: two 33-bit elements after a second reset; element 1, which *)
(* lies in two words, is set to the largest value and read back.           *)
C20_Witness ==
    /\ resets = 2
    /\ mbs.element_bits = 33 /\ mbs.length = 2
    /\ Straddles(1)
    /\ written[1].set /\ written[1].val = 0 .. 32
    /\ last.op = "get" /\ last.i = 1 /\ ~ last.panic /\ last.ret = 0 .. 32

-----------------------------------------------------------------------------
(* Claims about absent and mistyped tags, and about entities.              *)

RECURSIVE PathString(_)
PathString(path) ==
    IF path = <<>> THEN "" ELSE "/" \o Head(path) \o PathString(Tail(path))

(* The type of the tag at a required path.                                 *)
RequiredType(path) ==
    LET key == path[Len(path)]
    IN  CASE key \in {"MinecraftDataVersion", "Version"} -> "Int"
          [] key \in {"TimeCreated", "TimeModified"} -> "Long"
          [] key \in {"Description", "Author", "Name"} -> "String"
          [] key \in {"Metadata", "Regions", "EnclosingSize", "Position", "Size"} -> "Compound"
          [] key \in {"BlockStatePalette", "Entities", "TileEntities"} -> "List"
          [] key = "BlockStates" -> "LongArray"

(* The paths that name member key of entry idx of the TileEntities of a    *)
(* region.                                                                 *)
TileEntityMemberPaths(name, idx, key) ==
    {"/Regions/" \o name \o "/TileEntities" \o sep \o "[" \o ToString(idx) \o "]/" \o key :
        sep \in {"", "/"}}

(* C17: a load of a file in which a required tag is absent returns         *)
(* TagMissing with the path of the tag, and one in which it has another    *)
(* type returns TagTypeMismatch with the path and the two tag ids; for x,  *)
(* y and z of a block entity the path is under /Regions/<name>/TileEntities *)
(* and names the entry.                                                    *)
C17_TagErrorsCarryPath ==
    /\ (crafted.kind = "tag" /\ loaded.kind # "None" /\ BaselineLoads) =>
           /\ loaded.kind = "Err"
           /\ loaded.err =
                  IF crafted.fault = "missing" THEN TagMissing(PathString(crafted.path))
                  ELSE TagTypeMismatch(PathString(crafted.path), RequiredType(crafted.path),
                                       other_value(RequiredType(crafted.path)).tag)
    /\ (/\ crafted.kind = "tile_entity"
        /\ crafted.fault.kind # "none"
        /\ loaded.kind # "None"
        /\ BaselineLoads) =>
           /\ loaded.kind = "Err"
           /\ loaded.err.type =
                  IF crafted.fault.kind = "missing" THEN "TagMissing" ELSE "TagTypeMismatch"
           /\ crafted.fault.kind = "mistyped" =>
                  /\ loaded.err.expected_type = id_of_nbt_tag("Int")
                  /\ loaded.err.found_type = id_of_nbt_tag("Long")
           /\ loaded.err.tag_path
                  \in TileEntityMemberPaths(crafted.name, crafted.idx, crafted.fault.key)

(* floor of a value held in halves.                                        *)
Floor(h) == h \div 2

(* C18: an entity loaded from a Pos of three doubles has block_pos =       *)
(* floor(position) on each axis and its whole compound, Pos included, as   *)
(* tags; a Pos list of another length makes the load fail with             *)
(* InvalidValue.                                                           *)
C18_EntityBlockPosIsFloor ==
    /\ loaded.kind = "Ok" =>
           \A r \in Regions(loaded.val) : \A k \in 1 .. Len(r.entities) :
               /\ \A d \in 1 .. 3 :
                      r.entities[k].block_pos[d] = Floor(r.entities[k].position[d])
               /\ "Pos" \in DOMAIN r.entities[k].tags
               /\ r.entities[k].tags["Pos"] = ValueList(size_to_list(r.entities[k].position))
    /\ (crafted.kind = "entity" /\ loaded.kind # "None" /\ BaselineLoads) =>
           IF Len(crafted.pos) # 3
           THEN loaded.kind = "Err" /\ loaded.err.type = "InvalidValue"
           ELSE /\ loaded.kind = "Ok"
                /\ LoadedRegion(crafted.name).entities[crafted.idx + 1].tags
                       = entity_nbt(crafted.pos)

(* The number of words the packed elements of a region of a file need:     *)
(* ceil(W*H*D * width / 64).                                               *)
RequiredWords(region_nbt) ==
    LET size == region_nbt["Size"].v
        total_blocks == size["x"].v * size["y"].v * size["z"].v
        width == block_required_bits(Len(region_nbt["BlockStatePalette"].v))
    IN  ceil_up_to(total_blocks * width, 64) \div 64

(* The regions of the file whose BlockStates array is shorter than that.   *)
ShortRegions ==
    IF "Regions" \in DOMAIN tree
    THEN {key \in DOMAIN tree["Regions"].v :
             Len(tree["Regions"].v[key].v["BlockStates"].v)
                 < RequiredWords(tree["Regions"].v[key].v)}
    ELSE {}

(* C21: from_litematica fails no assertion on well-typed input: a load of  *)
(* a file in which a region's BlockStates LongArray holds fewer than       *)
(* ceil(W*H*D * width / 64) words (an empty array for a non-empty region   *)
(* included) returns a LoadError value and does not panic.                 *)
C21_ShortBlockStatesIsError ==
    (loaded.kind # "None" /\ crafted.kind = "block_states")
        => /\ crafted.name \in ShortRegions
           /\ loaded.kind = "Err"

=============================================================================
